---- MODULE Spec2Model ----
(***************************************************************************)
(* Model of api/youtube-proxy.js: the extractVideoId helper, the           *)
(* getVideoMetadata fetcher and the exported request handler.              *)
(*                                                                         *)
(* JavaScript strings that the code inspects character by character (the   *)
(* request url, the upstream counters) are sequences of one-character      *)
(* strings.  Fixed messages are TLA+ strings.  A JavaScript value is a     *)
(* record [t, s, n]: t is its type tag, s its characters (for a string),   *)
(* n its number (for a number).                                            *)
(***************************************************************************)
EXTENDS Integers, Sequences, FiniteSets, TLC

VARIABLES
  pc,          \* where the invocation stands: "start", "awaitFetch" (line 22),
               \* "awaitJson" (line 34), "done"
  req,         \* the request: method and body
  env,         \* process.env
  url,         \* handler's local url (line 89)
  videoId,     \* handler's local videoId (line 101)
  res,         \* the response object: headers, status, body, number of sends
  upstream,    \* what fetch settled with
  data,        \* what response.json() settled with
  outbound,    \* the video id and key of the request URL built at line 20
  fetchCalls,  \* number of fetch calls issued
  jsonReads,   \* number of response.json() calls issued
  caught       \* the error handler's catch block received, if any

vars == <<pc, req, env, url, videoId, res, upstream, data, outbound,
          fetchCalls, jsonReads, caught>>

----------------------------------------------------------------------------
(* JavaScript values *)

Undef == [t |-> "undefined", s |-> <<>>, n |-> 0]
Null == [t |-> "null", s |-> <<>>, n |-> 0]
NaN == [t |-> "NaN", s |-> <<>>, n |-> 0]
Str(chars) == [t |-> "string", s |-> chars, n |-> 0]
Num(k) == [t |-> "number", s |-> <<>>, n |-> k]
Arr(items) == [t |-> "array", s |-> items, n |-> 0]

\* ToBoolean, as `!x` and `x || y` apply it
Truthy(v) ==
  CASE v.t = "string" -> v.s # <<>>
    [] v.t = "number" -> v.n # 0
    [] v.t = "array" -> TRUE
    [] OTHER -> FALSE

\* a || b
OrElse(a, b) == IF Truthy(a) THEN a ELSE b

SetMin(S) == CHOOSE m \in S : \A k \in S : m <= k

----------------------------------------------------------------------------
(* extractVideoId *)

\* the four alternatives of the first pattern, in the order of the alternation
WatchPrefix ==
  <<"y","o","u","t","u","b","e",".","c","o","m","/","w","a","t","c","h","?","v","=">>
ShortPrefix == <<"y","o","u","t","u",".","b","e","/">>
EmbedPrefix ==
  <<"y","o","u","t","u","b","e",".","c","o","m","/","e","m","b","e","d","/">>
VPrefix == <<"y","o","u","t","u","b","e",".","c","o","m","/","v","/">>
UrlPrefixes == <<WatchPrefix, ShortPrefix, EmbedPrefix, VPrefix>>

\* the characters the capture group [^&\n?#]+ excludes
Delims == {"&", "\n", "?", "#"}

\* the class [a-zA-Z0-9_-] of the second pattern
IdChars ==
  {"a","b","c","d","e","f","g","h","i","j","k","l","m",
   "n","o","p","q","r","s","t","u","v","w","x","y","z",
   "A","B","C","D","E","F","G","H","I","J","K","L","M",
   "N","O","P","Q","R","S","T","U","V","W","X","Y","Z",
   "0","1","2","3","4","5","6","7","8","9","_","-"}

\* the {11} quantifier of the second pattern
IdLen == 11

\* p occurs in s starting at index i
PrefixAt(s, i, p) ==
  /\ i + Len(p) - 1 <= Len(s)
  /\ \A k \in 1..Len(p) : s[i + k - 1] = p[k]

\* index of the last character of the greedy run [^&\n?#]+ that starts at j
RunEnd(s, j) ==
  LET stops == {k \in j..Len(s) : s[k] \in Delims}
  IN  IF stops = {} THEN Len(s) ELSE SetMin(stops) - 1

\* the first pattern matches at i: a prefix, then at least one captured character
UrlMatchAt(s, i) ==
  \E a \in 1..Len(UrlPrefixes) :
    /\ PrefixAt(s, i, UrlPrefixes[a])
    /\ i + Len(UrlPrefixes[a]) <= Len(s)
    /\ s[i + Len(UrlPrefixes[a])] \notin Delims

\* url.match(patterns[0]): the leftmost match, its first alternative; match[1]
NoCapture == <<>>
UrlPatternCapture(s) ==
  LET starts == {i \in 1..Len(s) : UrlMatchAt(s, i)}
  IN  IF starts = {} THEN NoCapture
      ELSE LET i == SetMin(starts)
               a == SetMin({b \in 1..Len(UrlPrefixes) :
                              PrefixAt(s, i, UrlPrefixes[b])})
               j == i + Len(UrlPrefixes[a])
           IN  SubSeq(s, j, RunEnd(s, j))

\* url.match(patterns[1]): the whole input is 11 characters of the class
BarePatternCapture(s) ==
  IF Len(s) = IdLen /\ \A k \in 1..Len(s) : s[k] \in IdChars
  THEN s ELSE NoCapture

\* extractVideoId(url) for a string url: first pattern with a capture wins
extractVideoId(s) ==
  IF UrlPatternCapture(s) # NoCapture THEN Str(UrlPatternCapture(s))
  ELSE IF BarePatternCapture(s) # NoCapture THEN Str(BarePatternCapture(s))
  ELSE Null

----------------------------------------------------------------------------
(* parseInt, as getVideoMetadata calls it: one argument, no radix *)

WhiteSpace == {" ", "\t", "\n", "\r", "\f"}

DigitValue ==
  [c \in {"0","1","2","3","4","5","6","7","8","9",
          "a","b","c","d","e","f","A","B","C","D","E","F"} |->
     CASE c = "0" -> 0 [] c = "1" -> 1 [] c = "2" -> 2 [] c = "3" -> 3
       [] c = "4" -> 4 [] c = "5" -> 5 [] c = "6" -> 6 [] c = "7" -> 7
       [] c = "8" -> 8 [] c = "9" -> 9
       [] c \in {"a", "A"} -> 10 [] c \in {"b", "B"} -> 11
       [] c \in {"c", "C"} -> 12 [] c \in {"d", "D"} -> 13
       [] c \in {"e", "E"} -> 14 [] c \in {"f", "F"} -> 15]

IsDigit(c, radix) == c \in DOMAIN DigitValue /\ DigitValue[c] < radix

DecimalDigits == <<"0","1","2","3","4","5","6","7","8","9">>

\* String(k) for an integer k
RECURSIVE NatToChars(_)
NatToChars(k) ==
  IF k < 10 THEN <<DecimalDigits[k + 1]>>
  ELSE Append(NatToChars(k \div 10), DecimalDigits[(k % 10) + 1])

ToChars(v) ==
  CASE v.t = "string" -> v.s
    [] v.t = "number" ->
         IF v.n < 0 THEN <<"-">> \o NatToChars(0 - v.n) ELSE NatToChars(v.n)
    [] OTHER -> <<"N","a","N">>

\* s without its leading white space
RECURSIVE TrimLeft(_)
TrimLeft(s) ==
  IF s # <<>> /\ Head(s) \in WhiteSpace THEN TrimLeft(Tail(s)) ELSE s

\* the longest prefix of s made of digits of the radix
RECURSIVE DigitPrefix(_, _)
DigitPrefix(s, radix) ==
  IF s # <<>> /\ IsDigit(Head(s), radix)
  THEN <<Head(s)>> \o DigitPrefix(Tail(s), radix)
  ELSE <<>>

RECURSIVE DigitsValue(_, _)
DigitsValue(ds, radix) ==
  IF ds = <<>> THEN 0
  ELSE DigitsValue(SubSeq(ds, 1, Len(ds) - 1), radix) * radix
         + DigitValue[ds[Len(ds)]]

parseInt(v) ==
  LET trimmed == TrimLeft(ToChars(v))
      signed == trimmed # <<>> /\ Head(trimmed) \in {"+", "-"}
      sign == IF trimmed # <<>> /\ Head(trimmed) = "-" THEN 0 - 1 ELSE 1
      unsigned == IF signed THEN Tail(trimmed) ELSE trimmed
      hex == /\ Len(unsigned) >= 2
             /\ unsigned[1] = "0"
             /\ unsigned[2] \in {"x", "X"}
      radix == IF hex THEN 16 ELSE 10
      body == IF hex THEN SubSeq(unsigned, 3, Len(unsigned)) ELSE unsigned
      ds == DigitPrefix(body, radix)
  IN  IF ds = <<>> THEN NaN ELSE Num(sign * DigitsValue(ds, radix))

----------------------------------------------------------------------------
(* Errors and responses *)

Error(name, message) == [name |-> name, message |-> message]
NoError == Error("", "")

\* Error.prototype.toString
ErrorToString(e) ==
  IF e.message = "" THEN e.name
  ELSE IF e.name = "" THEN e.message
  ELSE e.name \o ": " \o e.message

NoBody == [none |-> TRUE]

\* the four res.setHeader calls at the top of handler
CorsHeaders ==
  {<<"Access-Control-Allow-Credentials", "true">>,
   <<"Access-Control-Allow-Origin", "*">>,
   <<"Access-Control-Allow-Methods", "GET,OPTIONS,POST">>,
   <<"Access-Control-Allow-Headers", "X-Requested-With, Content-Type, Accept">>}

\* res.status(s).end()
EndResponse(r, status) ==
  [r EXCEPT !.sent = @ + 1, !.status = status, !.kind = "end", !.body = NoBody]

\* res.status(s).json(body)
JsonResponse(r, status, body) ==
  [r EXCEPT !.sent = @ + 1, !.status = status, !.kind = "json", !.body = body]

\* { success: false, error: message }
ErrorEnvelope(message) == [success |-> FALSE, error |-> message]

\* the body built in handler's catch block
CatchEnvelope(e) ==
  [success |-> FALSE,
   error |-> IF e.message # "" THEN e.message ELSE "Internal server error",
   details |-> ErrorToString(e)]

\* object spread: the keys of later override those of earlier
Spread(earlier, later) == later @@ earlier

\* a variant that echoes the raw url as the video id
SuccessEnvelope_UrlAsId(id, u, metadata, now) ==
  Spread(Spread([success |-> TRUE, videoId |-> u, url |-> u,
                 contentType |-> "youtube"],
                metadata),
         [extractedAt |-> now])

\* the body of the 200 response
SuccessEnvelope(id, u, metadata, now) ==
  Spread(Spread([success |-> TRUE, videoId |-> id, url |-> u,
                 contentType |-> "youtube"],
                metadata),
         [extractedAt |-> now])

----------------------------------------------------------------------------
(* getVideoMetadata *)

\* response.ok
IsOk(status) == 200 <= status /\ status <= 299

\* a variant that reports every failing status the generic way
StatusError_Generic(response) ==
  Error("Error", "HTTP " \o ToString(response.status) \o ": "
                   \o response.statusText)

\* lines 24-32: the error thrown for a response that is not ok
StatusError(response) ==
  IF response.status = 403
  THEN Error("Error", "API quota exceeded or invalid API key")
  ELSE IF response.status = 404
  THEN Error("Error", "Video not found")
  ELSE Error("Error", "HTTP " \o ToString(response.status) \o ": "
                        \o response.statusText)

\* x?.url
OptionalUrl(x) == IF x.present THEN x.url ELSE Undef

ReadError(field) ==
  Error("TypeError",
        "Cannot read properties of undefined (reading '" \o field \o "')")

\* the object literal of lines 44-55, its properties evaluated in order
MetadataOf(video) ==
  [title |-> video.snippet.title,
   description |-> video.snippet.description,
   channelTitle |-> video.snippet.channelTitle,
   channelId |-> video.snippet.channelId,
   publishedAt |-> video.snippet.publishedAt,
   thumbnail |-> OrElse(OptionalUrl(video.snippet.thumbnails.high),
                        OptionalUrl(video.snippet.thumbnails.medium)),
   duration |-> video.contentDetails.duration,
   viewCount |-> parseInt(OrElse(video.statistics.viewCount, Num(0))),
   likeCount |-> parseInt(OrElse(video.statistics.likeCount, Num(0))),
   tags |-> OrElse(video.snippet.tags, Arr(<<>>))]

Thrown(e) == [ok |-> FALSE, error |-> e, value |-> NoBody]
Returned(v) == [ok |-> TRUE, error |-> NoError, value |-> v]

\* lines 40-55: the first property read of an absent object throws
MapVideo(video) ==
  IF ~video.snippet.present THEN Thrown(ReadError("title"))
  ELSE IF ~video.snippet.thumbnails.present THEN Thrown(ReadError("high"))
  ELSE IF ~video.contentDetails.present THEN Thrown(ReadError("duration"))
  ELSE IF ~video.statistics.present THEN Thrown(ReadError("viewCount"))
  ELSE Returned(MetadataOf(video))

\* lines 34-55: what getVideoMetadata does with the settled response.json()
AfterJson(payload) ==
  IF payload.json = "invalid"
  THEN Thrown(Error("SyntaxError", "Unexpected token < in JSON at position 0"))
  ELSE IF payload.json = "null"
  THEN Thrown(Error("TypeError",
                    "Cannot read properties of null (reading 'items')"))
  ELSE IF ~payload.items.present \/ Len(payload.items.list) = 0
  THEN Thrown(Error("Error", "Video not found or is private"))
  ELSE MapVideo(payload.items.list[1])

\* lines 22-32: what getVideoMetadata does with the settled fetch
AfterFetch(response) ==
  IF response.rejected THEN Thrown(Error("TypeError", "fetch failed"))
  ELSE IF ~IsOk(response.status) THEN Thrown(StatusError(response))
  ELSE Returned(NoBody)

----------------------------------------------------------------------------
(* handler *)

Outcome(kind, status, body, error, u, id) ==
  [kind |-> kind, status |-> status, body |-> body, error |-> error,
   url |-> u, videoId |-> id]

\* a variant that tests url === undefined only
UrlMissing_OnlyUndefined(u) == u.t = "undefined"

\* line 92: !url
UrlMissing(u) == ~Truthy(u)

\* a variant that tests YOUTUBE_API_KEY === undefined only
KeyMissing_OnlyUndefined(e) == e.YOUTUBE_API_KEY.t = "undefined"

\* line 115: !YOUTUBE_API_KEY
KeyMissing(e) == ~Truthy(e.YOUTUBE_API_KEY)

\* a variant that serves every method the CORS header advertises
MethodAllowed_Get(m) == m \in {"POST", "GET"}

\* line 79, negated: the one method that is served
MethodAllowed(m) == m = "POST"

\* lines 116-119: the body sent when the key is missing
KeyMissingBody ==
  ErrorEnvelope("Server configuration error - API key missing")

\* a variant that reads the key before it validates the request
PostEntry_KeyFirst(r, e) ==
  IF r.body.t # "object"
  THEN Outcome("throw", 0, NoBody,
               Error("TypeError",
                     "Cannot destructure property 'url' of 'req.body' as it is undefined."),
               Undef, Undef)
  ELSE IF KeyMissing(e)
  THEN Outcome("json", 500, KeyMissingBody, NoError, r.body.url, Undef)
  ELSE IF UrlMissing(r.body.url)
  THEN Outcome("json", 400, ErrorEnvelope("URL parameter is required"),
               NoError, r.body.url, Undef)
  ELSE IF r.body.url.t # "string"
  THEN Outcome("throw", 0, NoBody,
               Error("TypeError", "url.match is not a function"),
               r.body.url, Undef)
  ELSE IF ~Truthy(extractVideoId(r.body.url.s))
  THEN Outcome("json", 400, ErrorEnvelope("Invalid YouTube URL format"),
               NoError, r.body.url, extractVideoId(r.body.url.s))
  ELSE Outcome("await", 0, NoBody, NoError,
               r.body.url, extractVideoId(r.body.url.s))

\* lines 87-123: the POST branch up to the call of getVideoMetadata
PostEntry(r, e) ==
  IF r.body.t # "object"
  THEN Outcome("throw", 0, NoBody,
               Error("TypeError",
                     "Cannot destructure property 'url' of 'req.body' as it is undefined."),
               Undef, Undef)
  ELSE IF UrlMissing(r.body.url)
  THEN Outcome("json", 400, ErrorEnvelope("URL parameter is required"),
               NoError, r.body.url, Undef)
  ELSE IF r.body.url.t # "string"
  THEN Outcome("throw", 0, NoBody,
               Error("TypeError", "url.match is not a function"),
               r.body.url, Undef)
  ELSE IF ~Truthy(extractVideoId(r.body.url.s))
  THEN Outcome("json", 400, ErrorEnvelope("Invalid YouTube URL format"),
               NoError, r.body.url, extractVideoId(r.body.url.s))
  ELSE IF KeyMissing(e)
  THEN Outcome("json", 500, KeyMissingBody,
               NoError, r.body.url, extractVideoId(r.body.url.s))
  ELSE Outcome("await", 0, NoBody, NoError,
               r.body.url, extractVideoId(r.body.url.s))

\* a variant without the preflight branch of lines 73-76
HandlerEntry_NoPreflight(r, e) ==
  IF ~MethodAllowed(r.method)
  THEN Outcome("json", 405, ErrorEnvelope("Method not allowed. Use POST."),
               NoError, Undef, Undef)
  ELSE PostEntry(r, e)

\* lines 72-123: handler up to its first suspension or response
HandlerEntry(r, e) ==
  IF r.method = "OPTIONS"
  THEN Outcome("end", 200, NoBody, NoError, Undef, Undef)
  ELSE IF ~MethodAllowed(r.method)
  THEN Outcome("json", 405, ErrorEnvelope("Method not allowed. Use POST."),
               NoError, Undef, Undef)
  ELSE PostEntry(r, e)

\* a variant whose catch block logs the error and sends nothing
HandlerCatch_NoResponse(r, e) == r

\* lines 135-142
HandlerCatch(r, e) == JsonResponse(r, 500, CatchEnvelope(e))

\* lines 126-133
HandlerSuccess(r, id, u, metadata, now) ==
  JsonResponse(r, 200, SuccessEnvelope(id, u, metadata, now))

NoResponse == [rejected |-> FALSE, status |-> 0, statusText |-> ""]
NoPayload == [json |-> "none", items |-> [present |-> FALSE, list |-> <<>>]]
NoOutbound == [id |-> Undef, key |-> Undef]
NoRes == [sent |-> 0, status |-> 0, kind |-> "none", body |-> NoBody,
          headers |-> {}]

\* handler from its call to the first await or the response (lines 63-123)
HandlerStart ==
  /\ pc = "start"
  /\ LET o == HandlerEntry(req, env)
         r == [res EXCEPT !.headers = CorsHeaders]
     IN  /\ url' = o.url
         /\ videoId' = o.videoId
         /\ caught' = o.error
         /\ res' = CASE o.kind = "end" -> EndResponse(r, o.status)
                     [] o.kind = "json" -> JsonResponse(r, o.status, o.body)
                     [] o.kind = "throw" -> HandlerCatch(r, o.error)
                     [] OTHER -> r
         /\ pc' = IF o.kind = "await" THEN "awaitFetch" ELSE "done"
         /\ fetchCalls' = IF o.kind = "await" THEN fetchCalls + 1 ELSE fetchCalls
         /\ outbound' = IF o.kind = "await"
                        THEN [id |-> o.videoId, key |-> env.YOUTUBE_API_KEY]
                        ELSE outbound
  /\ UNCHANGED <<req, env, upstream, data, jsonReads>>

----------------------------------------------------------------------------
(* Inputs *)

\* longest run of extra characters tried after an 11-character segment
MaxExtra == 1
\* longest tail of delimiters and other characters tried after the segment
MaxTailLen == 1

HttpsWww == <<"h","t","t","p","s",":","/","/","w","w","w",".">>
NearMissPrefix == <<"y","o","u","t","u","b","e",".","c","o","m","/","x","/">>
UpperPrefix == <<"Y","o","u","t","u",".","b","e","/">>
IdBase == <<"d","Q","w","4","w","9","W","g","X","c","Q">>

\* the first k characters of the base identifier, repeated as needed
Seg(k) == [i \in 1..k |-> IdBase[((i - 1) % Len(IdBase)) + 1]]

TailChars == {"&", "?", "#", "\n", "t"}
Tails == UNION {[1..k -> TailChars] : k \in 0..MaxTailLen}

\* the strings extractVideoId is applied to
ExtractInputs ==
  {pre \o shape \o Seg(k) \o tail \o more :
     pre \in {<<>>, HttpsWww, <<"x">>, <<"!">>, <<"-">>},
     shape \in {<<>>, WatchPrefix, ShortPrefix, EmbedPrefix, VPrefix,
                NearMissPrefix, UpperPrefix},
     k \in 0..(IdLen + MaxExtra),
     tail \in Tails,
     more \in {<<>>, ShortPrefix \o Seg(IdLen)}}

\* the url strings the handler is called with
HandlerUrls ==
  {HttpsWww \o WatchPrefix \o Seg(IdLen),
   HttpsWww \o WatchPrefix \o Seg(IdLen) \o <<"&","t","=","1">>,
   ShortPrefix \o Seg(IdLen),
   HttpsWww \o EmbedPrefix \o Seg(IdLen) \o <<"?">>,
   VPrefix \o Seg(IdLen),
   ShortPrefix \o Seg(3),
   Seg(IdLen),
   Seg(IdLen - 1),
   HttpsWww \o NearMissPrefix \o Seg(IdLen),
   ShortPrefix}

Methods == {"OPTIONS", "POST", "GET", "PUT", "DELETE"}

Bodies ==
  {[t |-> "undefined", url |-> Undef], [t |-> "null", url |-> Undef]}
    \cup {[t |-> "object", url |-> u] :
            u \in {Undef, Null, Str(<<>>), Num(0), Num(123)}
                    \cup {Str(s) : s \in HandlerUrls}}

Requests == [method : Methods, body : Bodies]

Environments ==
  {[YOUTUBE_API_KEY |-> k] : k \in {Undef, Str(<<>>), Str(<<"K">>)}}

\* what fetch can settle with: a rejection, or a response with a status line
FetchResults ==
  {[rejected |-> TRUE, status |-> 0, statusText |-> ""]}
    \cup {[rejected |-> FALSE, status |-> st[1], statusText |-> st[2]] :
            st \in {<<200, "OK">>, <<200, "">>, <<204, "No Content">>,
                    <<400, "Bad Request">>, <<403, "Forbidden">>,
                    <<404, "Not Found">>, <<429, "Too Many Requests">>,
                    <<500, "Internal Server Error">>, <<503, "">>}}

\* upstream values of statistics.viewCount and statistics.likeCount
CountValues ==
  {Undef, Str(<<>>), Str(<<"0">>), Str(<<"4","2">>), Str(<<"a","b","c">>),
   Str(<<"-","5">>), Str(<<"1","2","a","b","c">>), Str(<<"0","x","1","f">>),
   Str(<<" ","7">>), Num(7), Num(0 - 2)}

Text(c) == Str(<<c>>)
Absent == [present |-> FALSE, url |-> Undef]
Image(c) == [present |-> TRUE, url |-> Text(c)]

NoThumbnails == [present |-> FALSE, high |-> Absent, medium |-> Absent]
Thumbnails ==
  {NoThumbnails}
    \cup [present : {TRUE}, high : {Absent, Image("H")},
          medium : {Absent, Image("M")}]

NoSnippet ==
  [present |-> FALSE, title |-> Undef, description |-> Undef,
   channelTitle |-> Undef, channelId |-> Undef, publishedAt |-> Undef,
   thumbnails |-> NoThumbnails, tags |-> Undef]
Snippets ==
  {NoSnippet}
    \cup [present : {TRUE}, title : {Text("T")}, description : {Text("D")},
          channelTitle : {Text("C")}, channelId : {Text("I")},
          publishedAt : {Text("P")}, thumbnails : Thumbnails,
          tags : {Undef, Arr(<<Text("a"), Text("b")>>)}]

ContentDetails ==
  {[present |-> FALSE, duration |-> Undef],
   [present |-> TRUE, duration |-> Text("L")]}

Statistics ==
  {[present |-> FALSE, viewCount |-> Undef, likeCount |-> Undef]}
    \cup [present : {TRUE}, viewCount : CountValues, likeCount : CountValues]

Videos ==
  [snippet : Snippets, contentDetails : ContentDetails, statistics : Statistics]

\* what response.json() can settle with
Payloads ==
  {[json |-> "invalid", items |-> [present |-> FALSE, list |-> <<>>]],
   [json |-> "null", items |-> [present |-> FALSE, list |-> <<>>]],
   [json |-> "object", items |-> [present |-> FALSE, list |-> <<>>]],
   [json |-> "object", items |-> [present |-> TRUE, list |-> <<>>]]}
    \cup {[json |-> "object", items |-> [present |-> TRUE, list |-> <<v>>]] :
            v \in Videos}

\* new Date().toISOString()
Timestamps == {"2024-01-01T00:00:00.000Z"}

----------------------------------------------------------------------------
(* The invocation as a state machine *)

Init ==
  /\ pc = "start"
  /\ req \in Requests
  /\ env \in Environments
  /\ url = Undef
  /\ videoId = Undef
  /\ res = NoRes
  /\ upstream = NoResponse
  /\ data = NoPayload
  /\ outbound = NoOutbound
  /\ fetchCalls = 0
  /\ jsonReads = 0
  /\ caught = NoError

\* the fetch of line 22 settles; getVideoMetadata runs to line 34 or throws
FetchSettled ==
  /\ pc = "awaitFetch"
  /\ \E response \in FetchResults :
       /\ upstream' = response
       /\ IF AfterFetch(response).ok
          THEN /\ pc' = "awaitJson"
               /\ jsonReads' = jsonReads + 1
               /\ UNCHANGED <<res, caught>>
          ELSE /\ pc' = "done"
               /\ caught' = AfterFetch(response).error
               /\ res' = HandlerCatch(res, AfterFetch(response).error)
               /\ UNCHANGED jsonReads
  /\ UNCHANGED <<req, env, url, videoId, data, outbound, fetchCalls>>

\* response.json() of line 34 settles; the invocation runs to its response
JsonSettled ==
  /\ pc = "awaitJson"
  /\ \E payload \in Payloads, now \in Timestamps :
       /\ data' = payload
       /\ IF AfterJson(payload).ok
          THEN /\ res' = HandlerSuccess(res, videoId, url,
                                        AfterJson(payload).value, now)
               /\ UNCHANGED caught
          ELSE /\ caught' = AfterJson(payload).error
               /\ res' = HandlerCatch(res, AfterJson(payload).error)
  /\ pc' = "done"
  /\ UNCHANGED <<req, env, url, videoId, upstream, outbound, fetchCalls,
                 jsonReads>>

Next == HandlerStart \/ FetchSettled \/ JsonSettled

Spec == Init /\ [][Next]_vars

----------------------------------------------------------------------------
(* extractVideoId on its own *)

InitExtract ==
  /\ pc = "extract"
  /\ url \in {Str(s) : s \in ExtractInputs}
  /\ req = [method |-> "POST", body |-> [t |-> "object", url |-> url]]
  /\ env = [YOUTUBE_API_KEY |-> Undef]
  /\ videoId = Undef
  /\ res = NoRes
  /\ upstream = NoResponse
  /\ data = NoPayload
  /\ outbound = NoOutbound
  /\ fetchCalls = 0
  /\ jsonReads = 0
  /\ caught = NoError

\* line 101 alone
Extract ==
  /\ pc = "extract"
  /\ videoId' = extractVideoId(url.s)
  /\ pc' = "extracted"
  /\ UNCHANGED <<req, env, url, res, upstream, data, outbound, fetchCalls,
                 jsonReads, caught>>

NextExtract == Extract

SpecExtract == InitExtract /\ [][NextExtract]_vars

----------------------------------------------------------------------------
(* Properties *)

Done == pc = "done"
IsPost == req.method = "POST"
HasBody == req.body.t = "object"
UrlIsString == HasBody /\ req.body.url.t = "string"
UrlRecognized == UrlIsString /\ Truthy(extractVideoId(req.body.url.s))
KeyConfigured == Truthy(env.YOUTUBE_API_KEY)

\* C1: a request whose method is OPTIONS is answered 200 with no body, whatever
\* its body and environment, and neither fetch nor response.json() is ever
\* called during it.
C1_Preflight ==
  req.method = "OPTIONS" =>
    /\ fetchCalls = 0
    /\ jsonReads = 0
    /\ pc \in {"start", "done"}
    /\ Done => /\ res.sent = 1
               /\ res.status = 200
               /\ res.kind = "end"
               /\ res.body = NoBody

C1_Witness ==
  /\ req.method = "OPTIONS"
  /\ Done
  /\ UrlRecognized
  /\ KeyConfigured
  /\ res.status = 200

\* some recognized URL shape occurs in s
ContainsShape(s) ==
  \E i \in 1..Len(s), a \in 1..Len(UrlPrefixes) : PrefixAt(s, i, UrlPrefixes[a])

\* the characters that follow the first occurrence of a shape, up to the first
\* delimiter
SegmentAfterShape(s) ==
  LET i == SetMin({k \in 1..Len(s) :
                     \E a \in 1..Len(UrlPrefixes) : PrefixAt(s, k, UrlPrefixes[a])})
      a == SetMin({b \in 1..Len(UrlPrefixes) : PrefixAt(s, i, UrlPrefixes[b])})
      j == i + Len(UrlPrefixes[a])
  IN  SubSeq(s, j, RunEnd(s, j))

\* C2: for every input that contains a recognized URL shape followed by a
\* segment, extractVideoId returns a string of exactly 11 characters, the
\* segment that follows the shape cut at the first delimiter; it never returns
\* an identifier whose length differs from 11.
C2_ElevenCharacters ==
  (pc = "extracted" /\ ContainsShape(url.s)) =>
    /\ (SegmentAfterShape(url.s) # <<>>) => (videoId.t = "string")
    /\ (videoId.t = "string") =>
         /\ Len(videoId.s) = IdLen
         /\ videoId.s = SegmentAfterShape(url.s)

IsNonNegativeInteger(v) == v.t = "number" /\ v.n >= 0

Succeeded == Done /\ res.kind = "json" /\ res.status = 200

\* C3: in every 200 success response viewCount and likeCount are non-negative
\* integers, and an absent or unparseable upstream value yields 0.
C3_CountsNonNegative ==
  Succeeded =>
    /\ IsNonNegativeInteger(res.body.viewCount)
    /\ IsNonNegativeInteger(res.body.likeCount)

FirstVideo == data.items.list[1]

Failed == Done /\ IsPost /\ ~Succeeded

\* the failure sources of a POST request
UrlAbsent == HasBody /\ req.body.url \in {Undef, Null, Str(<<>>)}
KeyNotConfigured == env.YOUTUBE_API_KEY \in {Undef, Str(<<>>)}
UpstreamFailed == fetchCalls = 1 /\ (upstream.rejected \/ ~IsOk(upstream.status))
ItemsEmpty ==
  /\ jsonReads = 1
  /\ data.json = "object"
  /\ ~data.items.present \/ Len(data.items.list) = 0
ItemsPresent ==
  /\ jsonReads = 1
  /\ data.json = "object"
  /\ data.items.present
  /\ Len(data.items.list) > 0
ValidVideo(v) ==
  /\ v.snippet.present
  /\ v.snippet.thumbnails.present
  /\ v.contentDetails.present
  /\ v.statistics.present
FailureSource ==
  \/ ~HasBody
  \/ UrlAbsent
  \/ ~UrlRecognized
  \/ KeyNotConfigured
  \/ UpstreamFailed
  \/ ItemsEmpty
  \/ ItemsPresent /\ ~ValidVideo(FirstVideo)

\* C4 as stated: every failed POST request is answered once, with status 400 or
\* 500 and a body of exactly the two fields success (false) and error.
C4_TwoFieldEnvelope ==
  Failed =>
    /\ res.sent = 1
    /\ res.kind = "json"
    /\ res.status \in {400, 500}
    /\ res.body.success = FALSE
    /\ DOMAIN res.body = {"success", "error"}

\* C4, amended: every POST request that meets a failure source ends with
\* exactly one response, a JSON body with success false and the error message,
\* and status 400 or 500; a failure that was thrown (absent body, non-string
\* url, upstream failure, malformed payload) is answered 500 by the catch
\* block, whose body carries a third field, details, the error's string form.
C4_FailuresAnswered ==
  /\ (IsPost /\ ~Done) => res.sent = 0
  /\ (IsPost /\ Done) => res.sent = 1
  /\ (IsPost /\ Done /\ FailureSource) => Failed
  /\ Failed =>
       /\ res.kind = "json"
       /\ res.status \in {400, 500}
       /\ res.body.success = FALSE
       /\ (caught = NoError) => (DOMAIN res.body = {"success", "error"})
       /\ (caught # NoError) =>
            /\ DOMAIN res.body = {"success", "error", "details"}
            /\ res.status = 500
            /\ res.body.error = caught.message
            /\ res.body.details = caught.name \o ": " \o caught.message

C4_Witness ==
  /\ Failed
  /\ ~HasBody
  /\ res.status = 500
  /\ caught.name = "TypeError"

\* C5 as stated: a POST with a recognized url and no configured key is answered
\* 500 with the message "Server configuration error", and fetch is not called.
C5_ShortMessage ==
  (IsPost /\ UrlRecognized /\ KeyNotConfigured) =>
    /\ fetchCalls = 0
    /\ Done => /\ res.status = 500
               /\ res.body = [success |-> FALSE,
                              error |-> "Server configuration error"]

\* C5, amended: a POST with a recognized url and no configured key is answered
\* 500 with the message "Server configuration error - API key missing", and
\* fetch is not called.
C5_MissingKey ==
  (IsPost /\ UrlRecognized /\ KeyNotConfigured) =>
    /\ fetchCalls = 0
    /\ pc \in {"start", "done"}
    /\ Done => /\ res.sent = 1
               /\ res.kind = "json"
               /\ res.status = 500
               /\ res.body =
                    [success |-> FALSE,
                     error |-> "Server configuration error - API key missing"]

C5_Witness ==
  /\ IsPost
  /\ UrlRecognized
  /\ env.YOUTUBE_API_KEY = Str(<<>>)
  /\ Done
  /\ res.status = 500

\* C6: once fetch has settled with a response, a 403 is answered 500 "API quota
\* exceeded or invalid API key", a 404 is answered 500 "Video not found", any
\* other status outside 200-299 is answered 500 with "HTTP <status>:
\* <statusText>", and a success status with absent or empty items is answered
\* 500 "Video not found or is private"; a status outside 200-299 is answered
\* without response.json() being called.
C6_UpstreamFailures ==
  (Done /\ fetchCalls = 1 /\ ~upstream.rejected) =>
    /\ (upstream.status = 403) =>
         /\ res.status = 500
         /\ res.body.error = "API quota exceeded or invalid API key"
    /\ (upstream.status = 404) =>
         /\ res.status = 500
         /\ res.body.error = "Video not found"
    /\ (~IsOk(upstream.status) /\ upstream.status \notin {403, 404}) =>
         /\ res.status = 500
         /\ res.body.error = "HTTP " \o ToString(upstream.status) \o ": "
                               \o upstream.statusText
    /\ (upstream.status = 500) =>
         res.body.error = "HTTP 500: Internal Server Error"
    /\ ~IsOk(upstream.status) => (jsonReads = 0 /\ data = NoPayload)
    /\ (IsOk(upstream.status) /\ ItemsEmpty) =>
         /\ res.status = 500
         /\ res.body.error = "Video not found or is private"

C6_Witness ==
  /\ Done
  /\ fetchCalls = 1
  /\ upstream.status = 403
  /\ res.status = 500

\* C7: a POST whose body has no url (absent, null or empty) is answered 400
\* "URL parameter is required" whether or not the key is configured; the ID
\* extractor is not run and fetch is not called.
C7_UrlRequired ==
  (IsPost /\ UrlAbsent) =>
    /\ fetchCalls = 0
    /\ videoId = Undef
    /\ pc \in {"start", "done"}
    /\ Done => /\ res.sent = 1
               /\ res.kind = "json"
               /\ res.status = 400
               /\ res.body = [success |-> FALSE,
                              error |-> "URL parameter is required"]

C7_Witness ==
  /\ IsPost
  /\ HasBody
  /\ req.body.url = Null
  /\ KeyConfigured
  /\ Done
  /\ res.status = 400

\* C8: a request whose method is neither OPTIONS nor POST is answered 405 with
\* {success: false, error: "Method not allowed. Use POST."}; the body is not
\* read and fetch is not called.
C8_MethodNotAllowed ==
  (req.method \notin {"OPTIONS", "POST"}) =>
    /\ fetchCalls = 0
    /\ url = Undef
    /\ videoId = Undef
    /\ caught = NoError
    /\ pc \in {"start", "done"}
    /\ Done => /\ res.sent = 1
               /\ res.kind = "json"
               /\ res.status = 405
               /\ res.body = [success |-> FALSE,
                              error |-> "Method not allowed. Use POST."]

C8_Witness ==
  /\ req.method = "GET"
  /\ UrlRecognized
  /\ KeyConfigured
  /\ Done
  /\ res.status = 405

EnvelopeKeys ==
  {"success", "videoId", "url", "contentType", "title", "description",
   "channelTitle", "channelId", "publishedAt", "thumbnail", "duration",
   "viewCount", "likeCount", "tags", "extractedAt"}

EnvelopeCorrect ==
  /\ Succeeded
  /\ res.sent = 1
  /\ DOMAIN res.body = EnvelopeKeys
  /\ res.body.success = TRUE
  /\ res.body.videoId = extractVideoId(req.body.url.s)
  /\ res.body.url = req.body.url
  /\ res.body.contentType = "youtube"
  /\ res.body.extractedAt \in Timestamps
  /\ res.body.title = FirstVideo.snippet.title
  /\ res.body.duration = FirstVideo.contentDetails.duration
  /\ \A k \in DOMAIN MetadataOf(FirstVideo) :
       res.body[k] = MetadataOf(FirstVideo)[k]

\* C9 as stated: a POST with a recognized url, a configured key and an upstream
\* success response with a non-empty items list is answered 200 with the
\* success envelope.
C9_AnyItem ==
  (Done /\ IsPost /\ ItemsPresent) => EnvelopeCorrect

\* C9, amended: a POST with a recognized url, a configured key and an upstream
\* success response whose first item carries snippet (with thumbnails),
\* contentDetails and statistics is answered 200 with an envelope in which
\* success is true, videoId is the extracted id, url echoes the request,
\* contentType is "youtube", the metadata fields are those getVideoMetadata
\* returned and extractedAt is set by the handler.
C9_SuccessEnvelope ==
  (Done /\ IsPost /\ ItemsPresent /\ ValidVideo(FirstVideo)) =>
    /\ UrlRecognized
    /\ KeyConfigured
    /\ EnvelopeCorrect

C9_Witness ==
  /\ Succeeded
  /\ req.body.url = Str(HttpsWww \o WatchPrefix \o IdBase)
  /\ res.body.videoId = Str(IdBase)
  /\ FirstVideo.statistics.viewCount = Str(<<"4", "2">>)
  /\ res.body.viewCount = Num(42)

\* C10: the checks run in the order method, url present, id extracted, key
\* configured and the response is that of the first one that fails; fetch is
\* called only when all four pass, at most once, and exactly one response is
\* sent per invocation.
C10_CheckOrder ==
  /\ fetchCalls <= 1
  /\ jsonReads <= fetchCalls
  /\ res.sent = IF Done THEN 1 ELSE 0
  /\ (fetchCalls = 1) <=>
       (pc # "start" /\ IsPost /\ UrlRecognized /\ ~KeyNotConfigured)
  /\ Done =>
       /\ (req.method = "OPTIONS") => (res.status = 200)
       /\ (req.method \notin {"OPTIONS", "POST"}) => (res.status = 405)
       /\ (IsPost /\ UrlAbsent) =>
            /\ res.status = 400
            /\ res.body.error = "URL parameter is required"
       /\ (IsPost /\ UrlIsString /\ ~UrlAbsent /\ ~UrlRecognized) =>
            /\ res.status = 400
            /\ res.body.error = "Invalid YouTube URL format"
       /\ (IsPost /\ UrlRecognized /\ KeyNotConfigured) =>
            /\ res.status = 500
            /\ res.body = KeyMissingBody

C10_Witness ==
  /\ Done
  /\ IsPost
  /\ UrlIsString
  /\ ~UrlAbsent
  /\ ~UrlRecognized
  /\ KeyNotConfigured
  /\ res.status = 400
  /\ res.body.error = "Invalid YouTube URL format"

====
